---------------------------- MODULE Spec2Model ----------------------------
(***************************************************************************)
(* A model of cc0::cmd (src/cmd.cpp, src/cmd.h): the command registry,     *)
(* Register with its name sanitizer, and the token loop of Process.        *)
(*                                                                         *)
(* Strings are sequences of one-character strings, so that Register's      *)
(* per-character loop can be written as the code writes it.                *)
(*                                                                         *)
(* 32-bit quantities (int i, int argc, uint32_t param_count) are kept as   *)
(* their 32-bit pattern, written as the signed reading of that pattern:    *)
(* -3 stands for the uint32_t value 2^32 - 3.  AddU32 and UGe are the      *)
(* modular addition and the unsigned comparison the usual arithmetic       *)
(* conversions give `i + a->param_count >= argc`.                          *)
(***************************************************************************)
EXTENDS Integers, Sequences, FiniteSets, TLC

VARIABLES
    cmds,                  \* Cmds(): key -> Cmd, a function on the registered keys
    longest_cmd,           \* Information().longest_cmd
    statics,               \* how many of cmd.cpp's own static registrations ran
    last,                  \* history: key -> the latest Register call under that key
    pc,                    \* "idle" | "loop" | "done" | "crashed"
    argc, argv,            \* Process arguments; C's argv[k] is argv[k + 1] here
    halt_on_unrecognized,  \* Process argument
    i, success,            \* Process locals
    result,                \* the value Process returned (NoResult before that)
    trace,                 \* history: one record per loop iteration
    steps,                 \* number of loop iterations so far
    info,                  \* Information().app_name and .version
    out,                   \* what the builtin handler that ran last printed
    input,                 \* a text handed to a conversion on its own
    output                 \* what that conversion gave

vars == <<cmds, longest_cmd, statics, last, pc, argc, argv,
          halt_on_unrecognized, i, success, result, trace, steps,
          info, out, input, output>>

\* the text under conversion and its result: no registry or Process step touches them
textVars == <<input, output>>

regVars  == <<cmds, longest_cmd, statics, last>>
procVars == <<pc, argc, argv, halt_on_unrecognized, i, success, result, trace, steps>>

---------------------------------------------------------------------------
(* Bounds of the model. *)

MaxArgs == 3        \* tokens after the program name
MaxArity == 2       \* small arities are 0 .. MaxArity
WideGap == 3        \* the wide arity is 2^32 - WideGap
MaxSteps == 4       \* loop iterations explored per Process call

---------------------------------------------------------------------------
(* 32-bit arithmetic. *)

MaxInt32 == 2147483647
MinInt32 == -MaxInt32 - 1

\* unsigned (a + b) mod 2^32 on bit patterns, never leaving the 32-bit range
AddU32(a, b) ==
    IF a >= 0 /\ b >= 0 /\ a > MaxInt32 - b
    THEN (a - MaxInt32 - 1) + (b - MaxInt32 - 1)
    ELSE IF a < 0 /\ b < 0 /\ a < MinInt32 - b
    THEN (a + MaxInt32 + 1) + (b + MaxInt32 + 1)
    ELSE a + b

\* TRUE iff the unsigned sum of a and b is 2^32 or more (the addition wraps)
CarryU32(a, b) ==
    \/ a < 0 /\ b < 0
    \/ (a < 0) # (b < 0) /\ AddU32(a, b) >= 0

\* unsigned a >= b on bit patterns
UGe(a, b) == IF (a >= 0) = (b >= 0) THEN a >= b ELSE a < 0

\* unsigned a < b on bit patterns
ULt(a, b) == ~UGe(a, b)

---------------------------------------------------------------------------
(* Characters and names. *)

Lower == {"a","b","c","d","e","f","g","h","i","j","k","l","m",
          "n","o","p","q","r","s","t","u","v","w","x","y","z"}
Upper == {"A","B","C","D","E","F","G","H","I","J","K","L","M",
          "N","O","P","Q","R","S","T","U","V","W","X","Y","Z"}
Digit == {"0","1","2","3","4","5","6","7","8","9"}

\* a test that takes the underscore of an identifier for a character to keep
IsAlnum_Identifier(c) == c \in Lower \/ c \in Upper \/ c \in Digit \/ c = "_"

\* the condition of Register's loop body, negated: the characters it keeps
IsAlnum(c) == c \in Lower \/ c \in Upper \/ c \in Digit

\* a loop that drops the other characters instead of replacing them
Sanitize_Drops(s) == SelectSeq(s, IsAlnum)

\* Register's loop over cmd: the same length, every other character '-'
Sanitize(s) == [k \in 1..Len(s) |-> IF IsAlnum(s[k]) THEN s[k] ELSE "-"]

VersionName == <<"v","e","r","s","i","o","n">>
HelpName    == <<"h","e","l","p">>
ProgName    == <<"p">>

\* raw names handed to Register by user code
RawNames == { <<"a","_","b">>, <<"a","-","b">> }

\* tokens that can occur on the command line after the program name
TokenSet == { <<"a","-","b">>, <<"a","_","b">>, HelpName }

---------------------------------------------------------------------------
(* The registry. *)

\* the null Cmd pointer, the null char** and the parameter wrapping a null char*
NullCmd == [fn |-> "nullptr"]
NullPtr == [null |-> TRUE, at |-> 0]
NullParam == [null |-> TRUE, m_param |-> << >>]
NoResult == "none"

\* handlers and doc strings of user code
UserHandlers == {"h1", "h2"}
Docs == {"d1", "d2"}

WideArity == 0 - WideGap
Arities == (0..MaxArity) \cup {WideArity}

\* struct Cmd
Cmd(fn, doc, param_count, halt_on_fail) ==
    [fn |-> fn, doc |-> doc, param_count |-> param_count, halt_on_fail |-> halt_on_fail]

\* mutant of Command: a lookup that sanitizes the token first
Command_Sanitizing(cmd_name) ==
    IF Sanitize(cmd_name) \in DOMAIN cmds THEN cmds[Sanitize(cmd_name)] ELSE NullCmd

\* Command(cmd_name): the entry found, or nullptr
Command(cmd_name) ==
    IF cmd_name \in DOMAIN cmds THEN cmds[cmd_name] ELSE NullCmd

\* mutant of Store: an insertion that keeps an entry already present
Store_KeepFirst(map, key, val) ==
    [k \in DOMAIN map \cup {key} |-> IF k \in DOMAIN map THEN map[k] ELSE val]

\* Cmds()[cmd] = Cmd{...}: insert or overwrite one key
Store(map, key, val) ==
    [k \in DOMAIN map \cup {key} |-> IF k = key THEN val ELSE map[k]]

\* the padding Register adds to the name length
Padding == 3

\* an update that takes the width of the latest name, longer or not
Longest_Latest(cmd, old) == Len(cmd) + Padding

\* the new value of Information().longest_cmd
Longest(cmd, old) == IF Len(cmd) + Padding > old THEN Len(cmd) + Padding ELSE old

\* the value Register returns
RegisterReturn == TRUE

\* cc0::cmd::Register.  The history `last` keeps, for each key, the call made
\* most recently under it and whether an earlier call had used the key.
RegisterCall(cmd_name, fn, param_count, doc, halt_on_fail) ==
    LET cmd == Sanitize(cmd_name)
        call == [cmd_name |-> cmd_name, fn |-> fn, doc |-> doc,
                 param_count |-> param_count, halt_on_fail |-> halt_on_fail,
                 ret |-> RegisterReturn, replaced |-> cmd \in DOMAIN last]
    IN
    /\ cmds' = Store(cmds, cmd, Cmd(fn, doc, param_count, halt_on_fail))
    /\ longest_cmd' = Longest(cmd, longest_cmd)
    /\ last' = [k \in DOMAIN last \cup {cmd} |-> IF k = cmd THEN call ELSE last[k]]

\* a registration made by user code (a CC0_CMD_END, or a direct call)
Register ==
    /\ pc = "idle"
    /\ \E cmd_name \in RawNames, fn \in UserHandlers, doc \in Docs,
          param_count \in Arities, halt_on_fail \in BOOLEAN :
          RegisterCall(cmd_name, fn, param_count, doc, halt_on_fail)
    /\ UNCHANGED <<statics, procVars, info, out, textVars>>

\* CC0_CMD_END(version, 0, "Print version.", false)
RegisterVersion ==
    /\ pc = "idle"
    /\ statics = 0
    /\ RegisterCall(VersionName, "version", 0, "Print version.", FALSE)
    /\ statics' = 1
    /\ UNCHANGED <<procVars, info, out, textVars>>

\* CC0_CMD_END(help, 0, "Print help.", false)
RegisterHelp ==
    /\ pc = "idle"
    /\ statics = 1
    /\ RegisterCall(HelpName, "help", 0, "Print help.", FALSE)
    /\ statics' = 2
    /\ UNCHANGED <<procVars, info, out, textVars>>

---------------------------------------------------------------------------
(* The builtin handlers' output. *)

\* static Info info = { "", "", 0 }
NoInfo == [app_name |-> "", version |-> ""]

\* a help that leaves the builtin commands out of its list
HelpKeys_UserOnly == DOMAIN cmds \ {VersionName, HelpName}

\* the keys help's loop visits: Cmds().begin() up to Cmds().end()
HelpKeys == DOMAIN cmds

\* the j loop of help: longest_cmd - i->first.size() blanks.  The uint64_t
\* difference is kept as its signed reading: below 0 it stands for a wrapped count.
HelpPad(key) == longest_cmd - Len(key)

\* one line of help: the key, the blanks, the entry's doc
HelpLine(key) == [name |-> key, pad |-> HelpPad(key), doc |-> cmds[key].doc]

\* the lines help prints, each with the number of times it is printed; the
\* order, that of the unordered_map, is left open
HelpLines ==
    [ln \in {HelpLine(k) : k \in HelpKeys} |->
        Cardinality({k \in HelpKeys : HelpLine(k) = ln})]

NoLines == [ln \in {} |-> 0]
NoOutput == [kind |-> "none", header |-> << >>, lines |-> NoLines]

\* version::Run: app_name, a blank, version
VersionOutput ==
    [kind |-> "version", header |-> <<info.app_name, info.version>>, lines |-> NoLines]

\* help::Run: version's line, then one line per entry
HelpOutput ==
    [kind |-> "help", header |-> VersionOutput.header, lines |-> HelpLines]

\* the output recorded after handler fn ran (user handlers' output is their own)
Printed(fn) ==
    IF fn = "version" THEN VersionOutput
    ELSE IF fn = "help" THEN HelpOutput
    ELSE out

\* no conversion made yet
NoParse == [result |-> FALSE, value |-> 0, made |-> FALSE]

---------------------------------------------------------------------------
(* Handlers and the parameter view. *)

\* what a handler can return: the builtins return true, user code anything
HandlerReturns(fn) == IF fn \in {"version", "help"} THEN {TRUE} ELSE BOOLEAN

\* Params(a->param_count > 0 ? argv + i + 1 : nullptr, a->param_count)
Params(idx, param_count) ==
    [m_params |-> IF param_count # 0 THEN [null |-> FALSE, at |-> idx + 1] ELSE NullPtr,
     m_param_count |-> param_count]

\* Param(const char *param)
Param(str) == [null |-> FALSE, m_param |-> str]

\* Params::GetCount
GetCount(p) == p.m_param_count

\* Params::operator[]: the k-th parameter, or the null parameter
ParamAt(p, k) ==
    IF ULt(k, p.m_param_count) THEN Param(argv[p.m_params.at + k + 1]) ELSE NullParam

---------------------------------------------------------------------------
(* Process. *)

ArgVectors == UNION { [1..n -> TokenSet] : n \in 0..MaxArgs }

\* the call Process(argc, argv, halt_on_unrecognized), made from main
StartProcess ==
    /\ pc = "idle"
    /\ statics = 2
    /\ \E args \in ArgVectors, h \in BOOLEAN :
          /\ argv' = <<ProgName>> \o args
          /\ argc' = 1 + Len(args)
          /\ halt_on_unrecognized' = h
    /\ i' = 1
    /\ success' = TRUE
    /\ pc' = "loop"
    /\ UNCHANGED <<regVars, result, trace, steps, info, out, textVars>>

\* the loop condition holds and one more iteration is explored
InLoop == pc = "loop" /\ i < argc /\ steps < MaxSteps

\* what argv[i] can read: the token, or anything when i is out of bounds
Reads(idx) == IF idx >= 0 THEN {argv[idx + 1]} ELSE TokenSet

\* mutant of TooFew: `>` written for `>=`
TooFew_OffByOne(idx, param_count) == UGe(AddU32(idx, param_count), argc + 1)

\* the verdict of `i + a->param_count >= argc`
TooFew(idx, param_count) == UGe(AddU32(idx, param_count), argc)

\* the loop's ++i
Inc(idx) == idx + 1

\* mutant of Advance: the parameters are not skipped
Advance_ByOne(idx, param_count) == Inc(idx)

\* i += a->param_count, then the loop's ++i
Advance(idx, param_count) == Inc(AddU32(idx, param_count))

\* mutants of HaltOnUnrecognized: the flag is ignored
HaltOnUnrecognized_Never == FALSE
HaltOnUnrecognized_Always == TRUE

\* if (halt_on_unrecognized) return 1
HaltOnUnrecognized == halt_on_unrecognized

\* mutant of HaltOnFail: the flag is ignored
HaltOnFail_Never(a, ret) == FALSE

\* if (a->halt_on_fail) return 1, inside the branch of a handler returning false
HaltOnFail(a, ret) == ~ret /\ a.halt_on_fail

\* mutant of Accumulate: the latest handler decides
Accumulate_LastWins(s, ret) == ret

\* success after a handler returned: cleared by false, never set again
Accumulate(s, ret) == IF ~ret THEN FALSE ELSE s

\* mutant of AfterTooFew: the report counts as a failure
AfterTooFew_Fails(s) == FALSE

\* success after the too-few-parameters report: the branch leaves it alone
AfterTooFew(s) == s

\* return success ? 0 : 1
ExitCode(s) == IF s THEN 0 ELSE 1

\* history record of one loop iteration
Event(kind, tok, a, ret) ==
    [kind |-> kind, idx |-> i, tok |-> tok, cmd |-> a, ret |-> ret,
     params |-> IF kind = "invoke" THEN Params(i, a.param_count) ELSE Params(i, 0)]

\* a == nullptr: report, and return 1 or go on to ++i
Unrecognized ==
    /\ InLoop
    /\ \E tok \in Reads(i) :
          /\ Command(tok) = NullCmd
          /\ trace' = Append(trace, Event("unrecognized", tok, NullCmd, TRUE))
    /\ IF HaltOnUnrecognized
       THEN /\ pc' = "done"
            /\ result' = 1
            /\ i' = i
       ELSE /\ i' = Inc(i)
            /\ UNCHANGED <<pc, result>>
    /\ steps' = steps + 1
    /\ UNCHANGED <<regVars, argc, argv, halt_on_unrecognized, success,
                   info, out, textVars>>

\* i + a->param_count >= argc: report, then i += a->param_count and ++i
TooFewParameters ==
    /\ InLoop
    /\ \E tok \in Reads(i) :
          LET a == Command(tok) IN
          /\ a # NullCmd
          /\ TooFew(i, a.param_count)
          /\ trace' = Append(trace, Event("toofew", tok, a, TRUE))
          /\ i' = Advance(i, a.param_count)
    /\ success' = AfterTooFew(success)
    /\ steps' = steps + 1
    /\ UNCHANGED <<regVars, pc, argc, argv, halt_on_unrecognized, result,
                   info, out, textVars>>

\* the handler is called; on false success is cleared and halt_on_fail returns 1
Invoke ==
    /\ InLoop
    /\ \E tok \in Reads(i) :
          LET a == Command(tok) IN
          /\ a # NullCmd
          /\ ~TooFew(i, a.param_count)
          /\ \E ret \in HandlerReturns(a.fn) :
                /\ trace' = Append(trace, Event("invoke", tok, a, ret))
                /\ success' = Accumulate(success, ret)
                /\ out' = Printed(a.fn)
                /\ IF HaltOnFail(a, ret)
                   THEN /\ pc' = "done"
                        /\ result' = 1
                        /\ i' = i
                   ELSE /\ i' = Advance(i, a.param_count)
                        /\ UNCHANGED <<pc, result>>
    /\ steps' = steps + 1
    /\ UNCHANGED <<regVars, argc, argv, halt_on_unrecognized, info, textVars>>

\* argv[i] with i < 0 reads outside the array: the read may also fault
WildRead ==
    /\ InLoop
    /\ i < 0
    /\ pc' = "crashed"
    /\ UNCHANGED <<regVars, argc, argv, halt_on_unrecognized, i, success,
                   result, trace, steps, info, out, textVars>>

\* i < argc fails: return success ? 0 : 1
Return ==
    /\ pc = "loop"
    /\ ~(i < argc)
    /\ pc' = "done"
    /\ result' = ExitCode(success)
    /\ UNCHANGED <<regVars, argc, argv, halt_on_unrecognized, i, success,
                   trace, steps, info, out, textVars>>

---------------------------------------------------------------------------

\* everything but the text under conversion, as the static initializers leave it
Fresh ==
    /\ cmds = << >>
    /\ longest_cmd = 0
    /\ statics = 0
    /\ last = << >>
    /\ pc = "idle"
    /\ argc = 0
    /\ argv = << >>
    /\ halt_on_unrecognized = FALSE
    /\ i = 0
    /\ success = TRUE
    /\ result = NoResult
    /\ trace = << >>
    /\ steps = 0
    /\ info = NoInfo
    /\ out = NoOutput
    /\ output = NoParse

Init ==
    /\ Fresh
    /\ input = << >>

Next ==
    \/ Register
    \/ RegisterVersion
    \/ RegisterHelp
    \/ StartProcess
    \/ Unrecognized
    \/ TooFewParameters
    \/ Invoke
    \/ WildRead
    \/ Return

Spec == Init /\ [][Next]_vars

---------------------------------------------------------------------------
(* Register's character loop on its own: one raw name, registered, and the
   key it gave registered again. *)

MaxNameLen == 3

\* a lower-case letter, an upper-case letter, a digit, the separator and a
\* character outside all four
NameAlphabet == {"a", "Z", "7", "-", "_"}

Names == UNION { [1..n -> NameAlphabet] : n \in 0..MaxNameLen }

InitSanitize ==
    /\ Fresh
    /\ input \in Names

\* Register(input, ...), the first registration
RegisterRaw ==
    /\ cmds = << >>
    /\ RegisterCall(input, "h1", 0, "d1", FALSE)
    /\ UNCHANGED <<statics, procVars, info, out, textVars>>

\* Register(key, ...), with a key of the registry as the raw name
RegisterAgain ==
    /\ \E key \in DOMAIN cmds : RegisterCall(key, "h1", 0, "d1", FALSE)
    /\ UNCHANGED <<statics, procVars, info, out, textVars>>

NextSanitize ==
    \/ RegisterRaw
    \/ RegisterAgain

SpecSanitize == InitSanitize /\ [][NextSanitize]_vars

---------------------------------------------------------------------------
(* Vocabulary of the properties. *)

Events == DOMAIN trace
Invoked(k) == trace[k].kind = "invoke"
Failed(k) == Invoked(k) /\ ~trace[k].ret
Unknown(k) == trace[k].kind = "unrecognized"
Skipped(k) == trace[k].kind = "toofew"
Returned == pc = "done"

\* the index the loop looks up after iteration k (meaningful while it goes on)
NextIndex(k) == IF k < Len(trace) THEN trace[k + 1].idx ELSE i

\* iteration k ended the call with a hard stop
HardStopAt(k) ==
    \/ Unknown(k) /\ halt_on_unrecognized
    \/ Failed(k) /\ trace[k].cmd.halt_on_fail

\* some token of the argument vector lies after the ones iteration k used
TokensAfter(k) == trace[k].idx >= 1 /\ trace[k].idx + 1 < argc

---------------------------------------------------------------------------
(* C1: hard stop on failure.  Whenever a handler that Process invoked has  *)
(* returned false and its command has halt_on_fail set, that iteration is  *)
(* the last one of the call (nothing after it is looked up or invoked),    *)
(* and Process has already returned 1.                                     *)
C1_HardStopOnFail ==
    \A k \in Events :
        Failed(k) /\ trace[k].cmd.halt_on_fail =>
            /\ k = Len(trace)
            /\ Returned
            /\ result = 1

\* a halting failure with a registered command still waiting after it
C1_Witness ==
    /\ Returned
    /\ trace # << >>
    /\ LET k == Len(trace) IN
       /\ Failed(k) /\ trace[k].cmd.halt_on_fail
       /\ trace[k].cmd.param_count = 1
       /\ trace[k].idx + 2 < argc
       /\ argv[trace[k].idx + 3] \in DOMAIN cmds

C4_OneOnlyIfHandlerFailed ==
    Returned /\ result = 1 => \E k \in Events : Failed(k)

(* C5: parameter count guarantee.  Whenever a handler was invoked for the   *)
(* command at index idx with arity n, and idx + n stays below 2^32, at     *)
(* least n tokens follow idx, the view handed over has count n, and its    *)
(* elements 0 .. n-1 are argv[idx+1] .. argv[idx+n] in that order.         *)
C5_ParameterCount ==
    \A k \in Events :
        LET e == trace[k]
            n == e.cmd.param_count
        IN  Invoked(k) /\ ~CarryU32(e.idx, n) =>
                /\ n >= 0
                /\ e.idx + n < argc
                /\ GetCount(e.params) = n
                /\ \A j \in 0..(n - 1) :
                      LET q == ParamAt(e.params, j) IN
                      ~q.null /\ q.m_param = argv[(e.idx + 1 + j) + 1]

\* a handler of arity 2 was invoked
C5_Witness ==
    \E k \in Events :
        /\ Invoked(k)
        /\ trace[k].cmd.param_count = 2
        /\ trace[k].idx = 1

C7_TooFewIsNotFailure ==
    (\E k \in Events : Skipped(k)) =>
        /\ success <=> ~(\E k \in Events : Failed(k))
        /\ Returned /\ ~(\E k \in Events : Failed(k) \/ HardStopAt(k)) => result = 0

\* a handler succeeded, the next command was skipped, and the call returned 0
C7_Witness ==
    /\ Returned /\ result = 0
    /\ Len(trace) = 2
    /\ Invoked(1) /\ trace[1].ret
    /\ Skipped(2)

(* C8: unrecognized tokens are skipped by default.  Without                *)
(* halt_on_unrecognized, an iteration that found no command invokes no     *)
(* handler, leaves success alone and moves the index by exactly 1; a call  *)
(* in which every other iteration invoked a handler that returned true     *)
(* returns 0.                                                              *)
C8_UnrecognizedIsSkipped ==
    (\E k \in Events : Unknown(k)) /\ ~halt_on_unrecognized =>
        /\ \A k \in Events :
              Unknown(k) =>
                  /\ trace[k].cmd = NullCmd
                  /\ NextIndex(k) = trace[k].idx + 1
                  /\ pc # "done" \/ k < Len(trace) \/ NextIndex(k) >= argc
        /\ success <=> ~(\E k \in Events : Failed(k))
        /\ Returned /\ (\A k \in Events : Unknown(k) \/ (Invoked(k) /\ trace[k].ret))
              => result = 0

\* an unrecognized token, then the very next token invoked, and 0 returned
C8_Witness ==
    /\ Returned /\ result = 0 /\ ~halt_on_unrecognized
    /\ Len(trace) = 2
    /\ Unknown(1)
    /\ Invoked(2) /\ trace[2].idx = trace[1].idx + 1

(* C9: execution order.  The handler invocations of one Process call       *)
(* follow strictly increasing argument indices, so each invocation         *)
(* belongs to a distinct token occurrence.                                 *)
C9_InvocationsInOrder ==
    \A j, k \in Events :
        j < k /\ Invoked(j) /\ Invoked(k) => trace[j].idx < trace[k].idx

(* C10: last registration wins.  Looking up the sanitized name of the      *)
(* latest Register call made under a key yields exactly that call's        *)
(* handler, doc, arity and halt_on_fail; the registry has no other keys;   *)
(* and every Register call returned true.                                  *)
C10_LastRegistrationWins ==
    /\ DOMAIN cmds = DOMAIN last
    /\ \A key \in DOMAIN last :
          LET c == last[key] IN
          /\ Command(Sanitize(c.cmd_name)) =
                [fn |-> c.fn, doc |-> c.doc, param_count |-> c.param_count,
                 halt_on_fail |-> c.halt_on_fail]
          /\ c.ret = TRUE

\* a key registered twice, beside the two builtin keys
C10_Witness ==
    /\ Cardinality(DOMAIN cmds) = 3
    /\ \E key \in DOMAIN last :
          /\ last[key].replaced
          /\ last[key].cmd_name # key

---------------------------------------------------------------------------
(* The registry and help: registrations under names of several lengths, the
   initialization call, and one Process call that runs a builtin command. *)

MaxUserKeys == 2

\* the empty name, names of one and two characters of which two share a key,
\* and the name of a builtin
RegistryNames == { << >>, <<"a">>, <<"a","_">>, <<"a","-">>, HelpName }

AppNames == {"app"}
Versions == {"1.0"}

UserKeys == DOMAIN cmds \ {VersionName, HelpName}

\* Register(cmd_name, fn, 0, doc, false) from user code; the number of
\* distinct keys user code adds is bounded
RegisterAny ==
    /\ pc = "idle"
    /\ \E cmd_name \in RegistryNames, doc \in Docs :
          /\ \/ Sanitize(cmd_name) \in DOMAIN cmds
             \/ Cardinality(UserKeys) < MaxUserKeys
          /\ RegisterCall(cmd_name, "h1", 0, doc, FALSE)
    /\ UNCHANGED <<statics, procVars, info, out, textVars>>

\* cc0::cmd::Init(app_name, version)
InitCall ==
    /\ pc = "idle"
    /\ \E app_name \in AppNames, version \in Versions :
          info' = [app_name |-> app_name, version |-> version]
    /\ UNCHANGED <<regVars, procVars, out, textVars>>

\* Process(2, argv, halt_on_unrecognized) with the name of a builtin as the
\* only token
StartBuiltin ==
    /\ pc = "idle"
    /\ statics = 2
    /\ \E tok \in {VersionName, HelpName}, h \in BOOLEAN :
          /\ argv' = <<ProgName, tok>>
          /\ argc' = 2
          /\ halt_on_unrecognized' = h
    /\ i' = 1
    /\ success' = TRUE
    /\ pc' = "loop"
    /\ UNCHANGED <<regVars, result, trace, steps, info, out, textVars>>

NextRegistry ==
    \/ RegisterAny
    \/ RegisterVersion
    \/ RegisterHelp
    \/ InitCall
    \/ StartBuiltin
    \/ Invoke
    \/ Return

SpecRegistry == Init /\ [][NextRegistry]_vars

---------------------------------------------------------------------------
(* Param::Int on its own: one parameter text, converted once. *)

MaxTextLen == 3

\* two digits, the two signs and a letter
TextAlphabet == {"0", "7", "-", "+", "a"}

Texts == UNION { [1..n -> TextAlphabet] : n \in 0..MaxTextLen }

\* the whitespace operator>> skips before the number (skipws is set)
IsSpace(c) == c = " "

RECURSIVE SkipWs(_)
SkipWs(s) == IF s # << >> /\ IsSpace(s[1]) THEN SkipWs(Tail(s)) ELSE s

\* the length of the sign num_get accepts at the start of the field
SignLen(s) == IF s # << >> /\ s[1] \in {"+", "-"} THEN 1 ELSE 0

\* the digits num_get accumulates: it stops at the first character that is
\* not one, and leaves the rest of the text in the stream
RECURSIVE DigitRun(_)
DigitRun(s) ==
    IF s # << >> /\ s[1] \in Digit THEN <<s[1]>> \o DigitRun(Tail(s)) ELSE << >>

DigitValue(c) == CHOOSE n \in 0..9 : <<"0","1","2","3","4","5","6","7","8","9">>[n + 1] = c

\* the number a run of decimal digits stands for
RECURSIVE Decimal(_)
Decimal(ds) ==
    IF ds = << >> THEN 0
    ELSE 10 * Decimal(SubSeq(ds, 1, Len(ds) - 1)) + DigitValue(ds[Len(ds)])

\* what p.value can hold when nothing was stored in it: Parse<int64_t> p has
\* no initializer
Indeterminate == {0 - 1, 0, 7}

\* Param::Int: p.result = bool(sin >> p.value).  On a text with nothing but
\* whitespace the extraction stops before num_get and p.value is not written;
\* with no digit after the optional sign it fails and stores 0; otherwise it
\* succeeds with the number read so far, whatever follows it.  The texts are
\* far shorter than the 19 digits of an int64_t, so the range is never left.
ParamInt(p) ==
    LET field  == SkipWs(p.m_param)
        digits == DigitRun(SubSeq(field, SignLen(field) + 1, Len(field)))
        number == IF SignLen(field) = 1 /\ field[1] = "-"
                  THEN 0 - Decimal(digits) ELSE Decimal(digits)
    IN
    IF field = << >>
    THEN {[result |-> FALSE, value |-> v, made |-> TRUE] : v \in Indeterminate}
    ELSE IF digits = << >>
    THEN {[result |-> FALSE, value |-> 0, made |-> TRUE]}
    ELSE {[result |-> TRUE, value |-> number, made |-> TRUE]}

InitParse ==
    /\ Fresh
    /\ input \in Texts

\* a handler calls Param(input).Int()
ParseInt ==
    /\ output = NoParse
    /\ output' \in ParamInt(Param(input))
    /\ UNCHANGED <<regVars, procVars, info, out, input>>

NextParse == ParseInt

SpecParse == InitParse /\ [][NextParse]_vars

---------------------------------------------------------------------------
(* C11  Sanitizing a name keeps its length, keeps every letter and digit
   where it is, puts '-' in the place of every other character, and changes
   nothing when applied to its own result: a key registered again as a raw
   name gives the same key. *)

Separator == "-"

KeptAsIs(c) == c \in Lower \cup Upper \cup Digit

C11_Sanitize ==
    /\ Sanitize(Sanitize(input)) = Sanitize(input)
    /\ Cardinality(DOMAIN cmds) <= 1
    /\ \A key \in DOMAIN last :
          LET s == last[key].cmd_name IN
            /\ s \in {input, key}
            /\ Len(key) = Len(s)
            /\ \A p \in 1..Len(s) :
                  key[p] = IF KeptAsIs(s[p]) THEN s[p] ELSE Separator

\* a name with a letter and an underscore was registered, and then its key
C11_Witness ==
    /\ \E p, q \in 1..Len(input) : KeptAsIs(input[p]) /\ input[q] = "_"
    /\ \E key \in DOMAIN last :
          /\ key # input
          /\ last[key].cmd_name = key
          /\ last[key].replaced

---------------------------------------------------------------------------
(* C12  When help runs it prints one line for every key of the registry,
   that is for version, for help and for every name registered by user code,
   each once, and each with the doc string of the latest registration under
   that key. *)

Listed == {ln.name : ln \in DOMAIN out.lines}

C12_HelpListsEveryCommand ==
    out.kind = "help" =>
        /\ Listed = DOMAIN last
        /\ {VersionName, HelpName} \subseteq Listed
        /\ \A ln \in DOMAIN out.lines :
              /\ out.lines[ln] = 1
              /\ ln.doc = last[ln.name].doc
        /\ \A ln1, ln2 \in DOMAIN out.lines : ln1.name = ln2.name => ln1 = ln2
        /\ out.header = <<info.app_name, info.version>>

\* help ran after Init and after user code registered two keys, one of them
\* under a raw name with an underscore and more than once
C12_Witness ==
    /\ out.kind = "help"
    /\ info # NoInfo
    /\ Cardinality(DOMAIN last \ {VersionName, HelpName}) >= 2
    /\ \E key \in DOMAIN last :
          /\ last[key].cmd_name # key
          /\ last[key].replaced
          /\ last[key].fn = "h1"

---------------------------------------------------------------------------
(* C13  Int() gives result = true only when the whole parameter text is an
   integer, an optional sign followed by digits and nothing else, and value
   is then that integer; a text that is not a number, or that goes on after
   its digits, gives result = false. *)

Unsigned(s) == IF s # << >> /\ s[1] \in {"+", "-"} THEN Tail(s) ELSE s

IsInteger(s) ==
    /\ Unsigned(s) # << >>
    /\ \A k \in 1..Len(Unsigned(s)) : Unsigned(s)[k] \in Digit

IntegerOf(s) ==
    IF s[1] = "-" THEN 0 - Decimal(Unsigned(s)) ELSE Decimal(Unsigned(s))

C13_IntParsesFullString ==
    output.made =>
        /\ output.result => IsInteger(input) /\ output.value = IntegerOf(input)
        /\ ~IsInteger(input) => ~output.result

---------------------------------------------------------------------------
(* C14  After Process has invoked a handler of arity n at index i without a
   hard stop, the next token it looks up is the one at index i + 1 + n, and
   none of the n tokens after the command is looked up later in the call.
   The arity is stored as its signed reading: a negative param_count stands
   for an arity of 2^32 + param_count, and i + 1 + n then lies beyond every
   argc, so that no lookup may follow at all. *)

IsWide(param_count) == param_count < 0

\* index idx is one of the parameter positions of iteration k
ParameterOf(idx, k) ==
    /\ idx > trace[k].idx
    /\ IsWide(trace[k].cmd.param_count) \/ idx <= trace[k].idx + trace[k].cmd.param_count

C14_ParametersConsumed ==
    \A k \in Events :
        Invoked(k) /\ ~HardStopAt(k) =>
            /\ IF IsWide(trace[k].cmd.param_count)
               THEN k = Len(trace) /\ ~(pc = "loop" /\ i < argc)
               ELSE NextIndex(k) = trace[k].idx + 1 + trace[k].cmd.param_count
            /\ \A j \in Events : j > k => ~ParameterOf(trace[j].idx, k)

\* the same, for the arities below 2^31 only
C14_NarrowArities ==
    \A k \in Events :
        Invoked(k) /\ ~HardStopAt(k) /\ ~IsWide(trace[k].cmd.param_count) =>
            /\ NextIndex(k) = trace[k].idx + 1 + trace[k].cmd.param_count
            /\ \A j \in Events : j > k => ~ParameterOf(trace[j].idx, k)

---------------------------------------------------------------------------
(* C15  As stated: after any sequence of Register calls every key of the
   registry is non-empty and holds only letters, digits and '-'. *)

KeyCharacters == Lower \cup Upper \cup Digit \cup {"-"}

C15_KeysNonEmptyAndClean ==
    \A key \in DOMAIN cmds :
        /\ key # << >>
        /\ \A p \in 1..Len(key) : key[p] \in KeyCharacters

(* C15, amended: every key of the registry holds only letters, digits and
   '-', and has the length of the raw name it was registered under, so that
   a key is empty exactly when Register was called with the empty name. *)
C15_KeysClean ==
    \A key \in DOMAIN cmds :
        /\ \A p \in 1..Len(key) : key[p] \in KeyCharacters
        /\ key \in DOMAIN last
        /\ Len(key) = Len(last[key].cmd_name)
        /\ key = << >> <=> last[key].cmd_name = << >>

\* the registry holds the empty key beside a key made from a name with an
\* underscore
C15_Witness ==
    /\ << >> \in DOMAIN cmds
    /\ \E key \in DOMAIN cmds :
          /\ key # << >>
          /\ last[key].cmd_name # key
          /\ \E p \in 1..Len(key) : last[key].cmd_name[p] = "_" /\ key[p] = "-"

---------------------------------------------------------------------------
(* C16  A token triggers a command exactly when it equals, character for
   character, the sanitized form of a name registered so far; the token
   itself is not sanitized, so the raw name a_b of the command a-b is
   reported as unrecognized. *)

SanitizedNames == {Sanitize(last[key].cmd_name) : key \in DOMAIN last}

\* iteration k found a command
Recognized(k) == trace[k].cmd # NullCmd

C16_ExactMatch ==
    \A k \in Events :
        /\ trace[k].idx >= 0 => trace[k].tok = argv[trace[k].idx + 1]
        /\ Recognized(k) <=> trace[k].tok \in SanitizedNames
        /\ Recognized(k) => trace[k].cmd = cmds[trace[k].tok]
        /\ Unknown(k) <=> ~Recognized(k)

\* the token a_b, the raw name of the registered command a-b, was looked up
\* and not recognized, and the token a-b was
C16_Witness ==
    \E k, j \in Events :
        /\ Unknown(k)
        /\ Sanitize(trace[k].tok) \in DOMAIN last
        /\ last[Sanitize(trace[k].tok)].cmd_name = trace[k].tok
        /\ trace[k].tok # Sanitize(trace[k].tok)
        /\ Recognized(j)
        /\ trace[j].tok = Sanitize(trace[k].tok)

---------------------------------------------------------------------------
(* C17  Information().longest_cmd is the largest of the lengths of the
   sanitized names registered so far plus 3, or 0 when there is none; it
   never decreases; the number of blanks help computes for a key,
   longest_cmd minus the length of the key, is therefore at least 3 and
   never wraps. *)

RECURSIVE MaxOf(_)
MaxOf(S) ==
    IF S = {} THEN 0
    ELSE LET x == CHOOSE y \in S : TRUE
             m == MaxOf(S \ {x})
         IN IF x > m THEN x ELSE m

C17_Width ==
    /\ longest_cmd = MaxOf({Len(Sanitize(last[key].cmd_name)) + 3 : key \in DOMAIN last})
    /\ \A key \in DOMAIN cmds : longest_cmd - Len(key) >= 3
    /\ \A ln \in DOMAIN out.lines : ln.pad >= 3

C17_AlignmentWidth == []C17_Width /\ [][longest_cmd' >= longest_cmd]_vars

\* help printed its lines, the one of the longest key with 3 blanks and the
\* one of the empty key with longest_cmd blanks, after names of other lengths
\* were registered and registered again
C17_Witness ==
    /\ out.kind = "help"
    /\ \E ln \in DOMAIN out.lines : ln.pad = 3
    /\ \E ln \in DOMAIN out.lines :
          /\ ln.name = << >>
          /\ ln.pad = longest_cmd
    /\ \E key \in DOMAIN last : Len(key) = 1 /\ last[key].replaced

---------------------------------------------------------------------------
(* C18  Process terminates: the index grows in every iteration of the loop
   that does not end the call, so a call makes at most argc - 1 lookups.  An
   unbounded run of the loop shows in a finite prefix: an iteration after
   which the index has not grown, or more iterations than tokens. *)

C18_IndexGrows ==
    /\ \A k \in Events :
          \/ NextIndex(k) > trace[k].idx
          \/ k = Len(trace) /\ HardStopAt(k) /\ Returned
    /\ pc # "idle" => Len(trace) <= argc - 1

\* the same, while no registered arity is 2^31 or more
C18_NarrowArities ==
    (\A key \in DOMAIN cmds : ~IsWide(cmds[key].param_count)) => C18_IndexGrows

---------------------------------------------------------------------------
(* C19  The too-few-parameters verdict of Process equals the verdict of
   i + arity >= argc in unbounded integers, for every arity of the 32-bit
   range: a command at index i >= 1 is skipped exactly when fewer than arity
   tokens follow it, a handler is invoked only with arity tokens after its
   command, and the index never moves backwards.  For a param_count that
   stands for 2^32 + param_count the unbounded sum exceeds every argc. *)

ExactTooFew(idx, param_count) ==
    IF IsWide(param_count) THEN TRUE ELSE idx + param_count >= argc

C19_ArityCheckExact ==
    \A k \in Events :
        /\ Recognized(k) /\ trace[k].idx >= 1 =>
              (Skipped(k) <=> ExactTooFew(trace[k].idx, trace[k].cmd.param_count))
        /\ Invoked(k) =>
              /\ ~IsWide(trace[k].cmd.param_count)
              /\ trace[k].idx + trace[k].cmd.param_count <= argc - 1
        /\ NextIndex(k) >= trace[k].idx

\* the same, while no registered arity is 2^31 or more
C19_NarrowArities ==
    (\A key \in DOMAIN cmds : ~IsWide(cmds[key].param_count)) => C19_ArityCheckExact

\* the verdict alone is wrong in a reachable iteration: a handler of an arity
\* near 2^32 is invoked, at an index within the argument vector
C19_VerdictExact ==
    \A k \in Events :
        Invoked(k) /\ trace[k].idx >= 1 /\ trace[k].idx < argc =>
            ~ExactTooFew(trace[k].idx, trace[k].cmd.param_count)

====
